---- MODULE Spec2Model ----
(***************************************************************************)
(* Model of assignment_3/display.py: the fringe pattern generator          *)
(* (generate_sinusoidal_fringe_pattern, generate_phase_shifted_images,     *)
(* prepare_images) and the timer-driven display controller                 *)
(* (start_display, show_image, show_next_image, keyPressEvent, main).      *)
(*                                                                         *)
(* Numbers.  Angles are exact rational multiples of pi, [n |-> a, d |-> b] *)
(* standing for pi*a/b.  Other reals (intervals, intensities) are exact    *)
(* rationals [n, d].  np.cos is the one real function of the program; it   *)
(* is modelled by Bhaskara's rational approximation, which is exact at the *)
(* multiples of pi/2 and of pi/6 and within 0.002 elsewhere, and stays in  *)
(* [-1, 1] as np.cos does.                                                 *)
(***************************************************************************)
EXTENDS Integers, Sequences, FiniteSets, TLC

\* ------------------------------------------------------------------ bounds
\* Longest line typed at the input() prompt.
MaxLen == 5
\* Largest height or width handed to the generator functions.
MaxGenDim == 4

\* Characters that can be typed at the prompt.
Alphabet == {"-", ".", "0", "2"}
\* Screen resolutions (height, width) reported by QApplication.primaryScreen().
Screens == {<<1, 1>>, <<2, 3>>, <<3, 2>>}
\* Shapes and orientation tokens handed to the generator functions.
GenDims == (-1)..MaxGenDim
Orientations == {"vertical", "horizontal", "diagonal"}
Keys == {"Q", "Escape", "Space"}

VARIABLES
    pc,                  \* position in main(): constructed, prepared, exec, raised,
                         \* aborted
    screen_height,       \* self.screen_height
    screen_width,        \* self.screen_width
    current_image_index, \* self.current_image_index
    all_images,          \* self.all_images
    interval_seconds,    \* self.interval_seconds
    timer_active,        \* self.timer has been started and not stopped
    timer_interval,      \* the period, in ms, self.timer was started with
    visible,             \* the window is shown (showFullScreen .. close)
    pixmap,              \* the image set on self.image_label, <<>> when none
    displayed,           \* indices printed by show_image ("Displaying image ..")
    user_input,          \* the line read by input()
    ticks,               \* number of timeouts delivered to show_next_image
    cancel_index,        \* current_image_index when Q/Escape was handled, else -1
    call,                \* the method applied last whose outcome is kept
    result               \* what that call returned or raised

vars == <<pc, screen_height, screen_width, current_image_index, all_images,
          interval_seconds, timer_active, timer_interval, visible, pixmap,
          displayed, user_input, ticks, cancel_index, call, result>>

\* ------------------------------------------------------------- arithmetic
Abs(a) == IF a < 0 THEN -a ELSE a

RECURSIVE Gcd(_, _)
Gcd(a, b) == IF b = 0 THEN a ELSE Gcd(b, a % b)

\* The rational n/d in lowest terms with a positive denominator (d # 0).
Rat(n, d) ==
    LET g == Gcd(Abs(n), Abs(d))
        s == IF d < 0 THEN -1 ELSE 1
    IN  [n |-> s * (n \div g), d |-> s * (d \div g)]

RAdd(a, b) == Rat(a.n * b.d + b.n * a.d, a.d * b.d)
RSub(a, b) == Rat(a.n * b.d - b.n * a.d, a.d * b.d)
RMul(a, b) == Rat(a.n * b.n, a.d * b.d)
RInt(k) == [n |-> k, d |-> 1]
RLeq(a, b) == a.n * b.d <= b.n * a.d

\* Truncation toward zero of n/d, as Python's int() and astype do (d > 0).
Trunc(r) == IF r.n >= 0 THEN r.n \div r.d ELSE -((-r.n) \div r.d)

\* Angles, as multiples of pi.
Pi == RInt(1)
TwoPi == RInt(2)
HalfPi == Rat(1, 2)

\* np.cos(pi * a): Bhaskara's sin(pi*v) ~ 16v(1-v) / (5 - 4v(1-v)) on
\* v in [0,1], with cos(x) = sin(x + pi/2) and sin(x + pi) = -sin(x).
Cos(a) ==
    LET q == 2 * a.d
        p == (2 * a.n + a.d) % (2 * q)
        neg == p > q
        v == IF neg THEN p - q ELSE p
    IN  Rat((IF neg THEN -16 ELSE 16) * v * (q - v),
            5 * q * q - 4 * v * (q - v))

\* --------------------------------------------------------------- numpy
NoValue == [ok |-> FALSE, err |-> "none"]
Raise(e) == [ok |-> FALSE, err |-> e]

\* (variant: num samples of step (stop - start) / num, the end point left out)
linspace_noendpoint(start, stop, num) ==
    [k \in 1..num |-> RAdd(start, RMul(Rat(k - 1, num), RSub(stop, start)))]

\* np.linspace(start, stop, num) for num >= 0: num evenly spaced samples,
\* the last one set to stop.
linspace(start, stop, num) ==
    IF num = 1 THEN <<start>>
    ELSE [k \in 1..num |->
            IF k = num THEN stop
            ELSE RAdd(start, RMul(Rat(k - 1, num - 1), RSub(stop, start)))]

\* An array of h rows and w columns.
Array(h, w, f(_, _)) ==
    [h |-> h, w |-> w, px |-> [r \in 1..h |-> [c \in 1..w |-> f(r, c)]]]

\* ----------------------------------------------------- pattern generator
\* background + amplitude * np.cos(true_phase)
initial_image(true_phase, amplitude, background) ==
    Array(true_phase.h, true_phase.w, LAMBDA r, c :
        RAdd(background, RMul(amplitude, Cos(true_phase.px[r][c]))))

\* The 'vertical' branch: np.linspace raises ValueError for a negative number
\* of samples, np.tile for a negative repetition count.
vertical_pattern(height, width, amplitude, background) ==
    IF width < 0 \/ height < 0 THEN Raise("ValueError")
    ELSE LET x == linspace(RInt(0), TwoPi, width)
             X == Array(height, width, LAMBDA r, c : x[c])
         IN  [ok |-> TRUE, err |-> "none", true_phase |-> X,
              image |-> initial_image(X, amplitude, background)]

\* (variant: the 'horizontal' branch without the transpose of np.tile's result)
horizontal_pattern_untransposed(height, width, amplitude, background) ==
    IF width = 0 THEN Raise("ZeroDivisionError")
    ELSE IF height < 0 \/ width < 0 THEN Raise("ValueError")
    ELSE LET phase_shift == HalfPi
             scaled_height == RMul(Rat(height, width), TwoPi)
             initial_y_offset == RMul(RSub(TwoPi, scaled_height), Rat(1, 2))
             y == linspace(RSub(initial_y_offset, phase_shift),
                           RSub(RAdd(scaled_height, initial_y_offset), phase_shift),
                           height)
             Y == Array(width, height, LAMBDA r, c : y[c])
         IN  [ok |-> TRUE, err |-> "none", true_phase |-> Y,
              image |-> initial_image(Y, amplitude, background)]

\* (variant: the 'horizontal' branch with a full period of 2*pi, not scaled
\* by height/width)
horizontal_pattern_fullperiod(height, width, amplitude, background) ==
    IF width = 0 THEN Raise("ZeroDivisionError")
    ELSE IF height < 0 \/ width < 0 THEN Raise("ValueError")
    ELSE LET phase_shift == HalfPi
             scaled_height == TwoPi
             initial_y_offset == RMul(RSub(TwoPi, scaled_height), Rat(1, 2))
             y == linspace(RSub(initial_y_offset, phase_shift),
                           RSub(RAdd(scaled_height, initial_y_offset), phase_shift),
                           height)
             Y == Array(height, width, LAMBDA r, c : y[r])
         IN  [ok |-> TRUE, err |-> "none", true_phase |-> Y,
              image |-> initial_image(Y, amplitude, background)]

\* The 'horizontal' branch: height/width raises ZeroDivisionError for width 0,
\* before np.linspace and np.tile see a negative dimension.
horizontal_pattern(height, width, amplitude, background) ==
    IF width = 0 THEN Raise("ZeroDivisionError")
    ELSE IF height < 0 \/ width < 0 THEN Raise("ValueError")
    ELSE LET phase_shift == HalfPi
             scaled_height == RMul(Rat(height, width), TwoPi)
             initial_y_offset == RMul(RSub(TwoPi, scaled_height), Rat(1, 2))
             y == linspace(RSub(initial_y_offset, phase_shift),
                           RSub(RAdd(scaled_height, initial_y_offset), phase_shift),
                           height)
             Y == Array(height, width, LAMBDA r, c : y[r])
         IN  [ok |-> TRUE, err |-> "none", true_phase |-> Y,
              image |-> initial_image(Y, amplitude, background)]

\* generate_sinusoidal_fringe_pattern with the final else branch falling
\* through to the 'horizontal' pattern instead of raising.
generate_sinusoidal_fringe_pattern_noraise(shape, amplitude, background, orientation) ==
    IF orientation = "vertical"
    THEN vertical_pattern(shape[1], shape[2], amplitude, background)
    ELSE horizontal_pattern(shape[1], shape[2], amplitude, background)

\* generate_sinusoidal_fringe_pattern(shape, amplitude, background, orientation):
\* (initial_image, true_phase), or the exception raised.
generate_sinusoidal_fringe_pattern(shape, amplitude, background, orientation) ==
    IF orientation = "vertical"
    THEN vertical_pattern(shape[1], shape[2], amplitude, background)
    ELSE IF orientation = "horizontal"
    THEN horizontal_pattern(shape[1], shape[2], amplitude, background)
    ELSE Raise("ValueError")

\* phase_shifts = [0, np.pi/2, np.pi, 3*np.pi/2]
phase_shifts == <<RInt(0), HalfPi, Pi, Rat(3, 2)>>

\* astype(np.uint8) of a float: the fraction is dropped, the integer is
\* kept modulo 2^8.
astype_uint8(r) == Trunc(r) % 256

\* (variant: the scale is 255 instead of 127.5)
shifted_image_8bit_scale255(shifted_phase) ==
    Array(shifted_phase.h, shifted_phase.w, LAMBDA r, c :
        astype_uint8(RMul(RAdd(RInt(1), RMul(RInt(1), Cos(shifted_phase.px[r][c]))),
                          RInt(255))))

\* (shifted_image * 127.5).astype(np.uint8), with
\* shifted_image = 1.0 + 1.0 * np.cos(shifted_phase).
shifted_image_8bit(shifted_phase) ==
    Array(shifted_phase.h, shifted_phase.w, LAMBDA r, c :
        astype_uint8(RMul(RAdd(RInt(1), RMul(RInt(1), Cos(shifted_phase.px[r][c]))),
                          Rat(255, 2))))

\* true_phase + phase_shift
add_shift(true_phase, phase_shift) ==
    Array(true_phase.h, true_phase.w, LAMBDA r, c :
        RAdd(true_phase.px[r][c], phase_shift))

\* The loop of generate_phase_shifted_images from its k-th iteration on,
\* images being the list built so far.
RECURSIVE shifted_loop(_, _, _, _)
shifted_loop(shape, orientation, k, images) ==
    IF k > Len(phase_shifts) THEN [ok |-> TRUE, err |-> "none", images |-> images]
    ELSE LET g == generate_sinusoidal_fringe_pattern(shape, RInt(1), RInt(1), orientation)
         IN  IF ~g.ok THEN [ok |-> FALSE, err |-> g.err, images |-> images]
             ELSE shifted_loop(shape, orientation, k + 1,
                     Append(images,
                            shifted_image_8bit(add_shift(g.true_phase, phase_shifts[k]))))

\* generate_phase_shifted_images(shape, orientation): the list returned, or
\* the exception of generate_sinusoidal_fringe_pattern, which it lets pass
\* (images is then the local list as it was when the exception passed).
generate_phase_shifted_images(shape, orientation) ==
    shifted_loop(shape, orientation, 1, <<>>)

\* (variant: the two lists concatenated in the other order)
prepare_images_swapped(height, width) ==
    LET vertical_images == generate_phase_shifted_images(<<height, width>>, "vertical")
        horizontal_images == generate_phase_shifted_images(<<height, width>>, "horizontal")
    IN  IF ~vertical_images.ok THEN vertical_images
        ELSE IF ~horizontal_images.ok THEN horizontal_images
        ELSE [ok |-> TRUE, err |-> "none",
              images |-> horizontal_images.images \o vertical_images.images]

\* prepare_images(): the list assigned to self.all_images, 'vertical' images
\* first, or the exception of either call.
prepare_images(height, width) ==
    LET vertical_images == generate_phase_shifted_images(<<height, width>>, "vertical")
        horizontal_images == generate_phase_shifted_images(<<height, width>>, "horizontal")
    IN  IF ~vertical_images.ok THEN vertical_images
        ELSE IF ~horizontal_images.ok THEN horizontal_images
        ELSE [ok |-> TRUE, err |-> "none",
              images |-> vertical_images.images \o horizontal_images.images]

\* ------------------------------------------------------------ float(input())
Digits == <<"0", "1", "2", "3", "4", "5", "6", "7", "8", "9">>
IsDigit(c) == \E i \in 1..Len(Digits) : Digits[i] = c
DigitValue(c) == (CHOOSE i \in 1..Len(Digits) : Digits[i] = c) - 1

RECURSIVE Pow10(_)
Pow10(k) == IF k = 0 THEN 1 ELSE 10 * Pow10(k - 1)

\* The integer written by a sequence of digits.
RECURSIVE DigitsValue(_)
DigitsValue(ds) ==
    IF ds = <<>> THEN 0
    ELSE 10 * DigitsValue(SubSeq(ds, 1, Len(ds) - 1)) + DigitValue(ds[Len(ds)])

\* float(s) for a line s over Alphabet: an optional sign, then digits with at
\* most one point and at least one digit; anything else raises ValueError.
float(s) ==
    LET negative == Len(s) > 0 /\ s[1] = "-"
        body == IF negative THEN Tail(s) ELSE s
        points == {i \in 1..Len(body) : body[i] = "."}
        ds == SelectSeq(body, IsDigit)
        wellformed == /\ \A i \in 1..Len(body) : IsDigit(body[i]) \/ body[i] = "."
                      /\ Cardinality(points) <= 1
                      /\ Len(ds) >= 1
        decimals == IF points = {} THEN 0
                    ELSE Len(body) - (CHOOSE i \in points : TRUE)
    IN  IF wellformed
        THEN [ok |-> TRUE, err |-> "none",
              value |-> Rat((IF negative THEN -1 ELSE 1) * DigitsValue(ds), Pow10(decimals))]
        ELSE Raise("ValueError")

\* Lines that can be typed at the prompt.
Inputs == UNION {[1..n -> Alphabet] : n \in 0..MaxLen}

\* self.interval_seconds = 2.0  # Default value
DefaultInterval == RInt(2)

\* main(), lines 151-156: the interval typed, or the default when float()
\* raises ValueError.
\* (variant: the except branch falls back to 0 seconds)
read_interval_zero(s) ==
    LET f == float(s) IN IF f.ok THEN f.value ELSE RInt(0)

read_interval(s) ==
    LET f == float(s) IN IF f.ok THEN f.value ELSE DefaultInterval

\* ------------------------------------------------------------- controller
NoPixmap == [h |-> -1, w |-> -1, px |-> <<>>]
NoCall == [fn |-> "none", orientation |-> "none"]

\* (variant: only the upper end is tested; a negative index then counts from
\* the end of the list, as Python's indexing does)
show_image_nolower(index) ==
    IF index < Len(all_images) /\ index >= -Len(all_images)
    THEN /\ displayed' = Append(displayed, index)
         /\ pixmap' = all_images[IF index < 0 THEN Len(all_images) + index + 1
                                              ELSE index + 1]
    ELSE UNCHANGED <<displayed, pixmap>>

\* show_image(index): prints and sets the label's pixmap when index is in range.
show_image(index) ==
    IF 0 <= index /\ index < Len(all_images)
    THEN /\ displayed' = Append(displayed, index)
         /\ pixmap' = all_images[index + 1]
    ELSE UNCHANGED <<displayed, pixmap>>

\* (variant: the interval handed to the timer without the conversion to ms)
start_display_noconvert(interval) ==
    /\ interval_seconds' = interval
    /\ visible' = TRUE
    /\ current_image_index' = 0
    /\ show_image(0)
    /\ timer_interval' = Trunc(interval)
    /\ timer_active' = TRUE

\* start_display(interval_seconds)
start_display(interval) ==
    /\ interval_seconds' = interval
    /\ visible' = TRUE
    /\ current_image_index' = 0
    /\ show_image(0)
    /\ timer_interval' = Trunc(RMul(interval, RInt(1000)))
    /\ timer_active' = TRUE

\* (variant: the end test is > instead of >=)
show_next_image_offbyone ==
    /\ pc = "exec"
    /\ timer_active
    /\ timer_interval >= 0
    /\ ticks' = ticks + 1
    /\ current_image_index' = current_image_index + 1
    /\ IF current_image_index' > Len(all_images)
       THEN /\ timer_active' = FALSE
            /\ visible' = FALSE
            /\ UNCHANGED <<displayed, pixmap>>
       ELSE /\ show_image(current_image_index')
            /\ UNCHANGED <<timer_active, visible>>
    /\ UNCHANGED <<pc, screen_height, screen_width, all_images, interval_seconds,
                   timer_interval, user_input, cancel_index, call, result>>

\* (variant: at the end of the list the window is closed, the timer left running)
show_next_image_nostop ==
    /\ pc = "exec"
    /\ timer_active
    /\ timer_interval >= 0
    /\ ticks' = ticks + 1
    /\ current_image_index' = current_image_index + 1
    /\ IF current_image_index' >= Len(all_images)
       THEN /\ visible' = FALSE
            /\ UNCHANGED <<timer_active, displayed, pixmap>>
       ELSE /\ show_image(current_image_index')
            /\ UNCHANGED <<timer_active, visible>>
    /\ UNCHANGED <<pc, screen_height, screen_width, all_images, interval_seconds,
                   timer_interval, user_input, cancel_index, call, result>>

\* (variant: at the end of the list self.all_images is emptied)
show_next_image_clear ==
    /\ pc = "exec"
    /\ timer_active
    /\ timer_interval >= 0
    /\ ticks' = ticks + 1
    /\ current_image_index' = current_image_index + 1
    /\ IF current_image_index' >= Len(all_images)
       THEN /\ timer_active' = FALSE
            /\ visible' = FALSE
            /\ all_images' = <<>>
            /\ UNCHANGED <<displayed, pixmap>>
       ELSE /\ show_image(current_image_index')
            /\ UNCHANGED <<timer_active, visible, all_images>>
    /\ UNCHANGED <<pc, screen_height, screen_width, interval_seconds,
                   timer_interval, user_input, cancel_index, call, result>>

\* show_next_image(): the slot of self.timer.timeout.  Qt delivers timeouts
\* only while the timer is started, and starts no timer for a negative period.
show_next_image ==
    /\ pc = "exec"
    /\ timer_active
    /\ timer_interval >= 0
    /\ ticks' = ticks + 1
    /\ current_image_index' = current_image_index + 1
    /\ IF current_image_index' >= Len(all_images)
       THEN /\ timer_active' = FALSE
            /\ visible' = FALSE
            /\ UNCHANGED <<displayed, pixmap>>
       ELSE /\ show_image(current_image_index')
            /\ UNCHANGED <<timer_active, visible>>
    /\ UNCHANGED <<pc, screen_height, screen_width, all_images, interval_seconds,
                   timer_interval, user_input, cancel_index, call, result>>

\* (variant: Q and Escape close the window, the timer left running)
keyPressEvent_nostop(key) ==
    /\ pc = "exec"
    /\ visible
    /\ IF key = "Q" \/ key = "Escape"
       THEN /\ visible' = FALSE
            /\ cancel_index' = current_image_index
            /\ UNCHANGED timer_active
       ELSE UNCHANGED <<timer_active, visible, cancel_index>>
    /\ UNCHANGED <<pc, screen_height, screen_width, current_image_index, all_images,
                   interval_seconds, timer_interval, pixmap, displayed, user_input,
                   ticks, call, result>>

\* (variant: every key stops the timer and closes the window)
keyPressEvent_anykey(key) ==
    /\ pc = "exec"
    /\ visible
    /\ timer_active' = FALSE
    /\ visible' = FALSE
    /\ cancel_index' = current_image_index
    /\ UNCHANGED <<pc, screen_height, screen_width, current_image_index, all_images,
                   interval_seconds, timer_interval, pixmap, displayed, user_input,
                   ticks, call, result>>

\* keyPressEvent(event): key events reach the window only while it is shown.
keyPressEvent(key) ==
    /\ pc = "exec"
    /\ visible
    /\ IF key = "Q" \/ key = "Escape"
       THEN /\ timer_active' = FALSE
            /\ visible' = FALSE
            /\ cancel_index' = current_image_index
       ELSE UNCHANGED <<timer_active, visible, cancel_index>>
    /\ UNCHANGED <<pc, screen_height, screen_width, current_image_index, all_images,
                   interval_seconds, timer_interval, pixmap, displayed, user_input,
                   ticks, call, result>>

\* main(), lines 145-149: window.prepare_images(); an exception ends main.
main_prepare ==
    /\ pc = "constructed"
    /\ call = NoCall
    /\ LET r == prepare_images(screen_height, screen_width)
       IN  /\ call' = [fn |-> "prepare_images", orientation |-> "none"]
           /\ result' = r
           /\ IF r.ok THEN all_images' = r.images /\ pc' = "prepared"
                      ELSE all_images' = all_images /\ pc' = "raised"
    /\ UNCHANGED <<screen_height, screen_width, current_image_index, interval_seconds,
                   timer_active, timer_interval, visible, pixmap, displayed,
                   user_input, ticks, cancel_index>>

\* main(), lines 151-161: read the interval, start the display, run the
\* event loop.
main_start ==
    /\ pc = "prepared"
    /\ \E s \in Inputs :
          /\ user_input' = s
          /\ start_display(read_interval(s))
    /\ pc' = "exec"
    /\ UNCHANGED <<screen_height, screen_width, all_images, ticks, cancel_index,
                   call, result>>

\* FringePatternWindow.__init__ for a screen of the given size.
Constructed(height, width) ==
    /\ pc = "constructed"
    /\ screen_height = height
    /\ screen_width = width
    /\ current_image_index = 0
    /\ all_images = <<>>
    /\ interval_seconds = DefaultInterval
    /\ timer_active = FALSE
    /\ timer_interval = 0
    /\ visible = FALSE
    /\ pixmap = NoPixmap
    /\ displayed = <<>>
    /\ user_input = <<>>
    /\ ticks = 0
    /\ cancel_index = -1
    /\ call = NoCall
    /\ result = NoValue

Init == \E s \in Screens : Constructed(s[1], s[2])

Next ==
    \/ main_prepare
    \/ main_start
    \/ show_next_image
    \/ \E key \in Keys : keyPressEvent(key)

Spec == Init /\ [][Next]_vars

\* ------------------------------------------- the generator functions alone
\* generate_sinusoidal_fringe_pattern applied to the window's shape.
call_pattern(orientation) ==
    /\ pc = "constructed"
    /\ call = NoCall
    /\ LET r == generate_sinusoidal_fringe_pattern(<<screen_height, screen_width>>,
                                                   RInt(1), RInt(1), orientation)
       IN  /\ call' = [fn |-> "generate_sinusoidal_fringe_pattern",
                       orientation |-> orientation]
           /\ result' = r
           /\ pc' = IF r.ok THEN "returned" ELSE "raised"
    /\ UNCHANGED <<screen_height, screen_width, current_image_index, all_images,
                   interval_seconds, timer_active, timer_interval, visible, pixmap,
                   displayed, user_input, ticks, cancel_index>>

\* generate_phase_shifted_images applied to the window's shape.
call_shifted(orientation) ==
    /\ pc = "constructed"
    /\ call = NoCall
    /\ LET r == generate_phase_shifted_images(<<screen_height, screen_width>>, orientation)
       IN  /\ call' = [fn |-> "generate_phase_shifted_images",
                       orientation |-> orientation]
           /\ result' = r
           /\ pc' = IF r.ok THEN "returned" ELSE "raised"
    /\ UNCHANGED <<screen_height, screen_width, current_image_index, all_images,
                   interval_seconds, timer_active, timer_interval, visible, pixmap,
                   displayed, user_input, ticks, cancel_index>>

InitGen == \E h \in GenDims, w \in GenDims : Constructed(h, w)

NextGen ==
    \/ \E o \in Orientations : call_pattern(o)
    \/ \E o \in Orientations : call_shifted(o)
    \/ main_prepare

SpecGen == InitGen /\ [][NextGen]_vars

\* ------------------------------------------------------------ properties
Parsed == float(user_input)
Min(a, b) == IF a < b THEN a ELSE b
\* <<0, 1, ..., n-1>>
UpTo(n) == [i \in 1..n |-> i - 1]
NumImages == 8
MaxIndex(seq) == IF seq = <<>> THEN -1
                 ELSE CHOOSE m \in {seq[i] : i \in 1..Len(seq)} :
                        \A i \in 1..Len(seq) : seq[i] <= m

\* The controller has entered STOPPED: the list was exhausted by a tick, or
\* Q/Escape was handled.
Stopped ==
    /\ pc = "exec"
    /\ (current_image_index >= Len(all_images) \/ cancel_index # -1)

\* C1: after start_display with a positive interval and no cancel, the images
\* presented are 0,1,..,7 in order: index 0 by start_display before any tick,
\* one more index per tick for the next 7 ticks, and the 8th tick presents
\* nothing, stops the timer and closes the window.
C1_InOrderThenStopped ==
    (pc = "exec" /\ interval_seconds.n > 0 /\ cancel_index = -1) =>
        /\ ticks <= NumImages
        /\ current_image_index = ticks
        /\ displayed = UpTo(Min(ticks + 1, NumImages))
        /\ ticks < NumImages => (timer_active /\ visible)
        /\ ticks = NumImages => (~timer_active /\ ~visible /\ ~ENABLED show_next_image)

C1_Witness ==
    /\ pc = "exec" /\ interval_seconds.n > 0 /\ cancel_index = -1
    /\ ticks = NumImages
    /\ displayed = <<0, 1, 2, 3, 4, 5, 6, 7>>
    /\ ~timer_active

\* C2: a Q or Escape key handled while image i < 7 is current stops the
\* controller in that step (timer stopped, window closed), and from then on
\* no index above i is presented and no timeout is delivered.
C2_CancelStops ==
    (cancel_index >= 0 /\ cancel_index < NumImages - 1) =>
        /\ ~timer_active
        /\ ~visible
        /\ ~ENABLED show_next_image
        /\ current_image_index = cancel_index
        /\ MaxIndex(displayed) = cancel_index

C2_Witness ==
    /\ cancel_index = 3
    /\ displayed = <<0, 1, 2, 3>>
    /\ timer_interval > 0

\* C3: start with a non-positive interval behaves as start with 2.0: the
\* interval kept is 2.0 seconds and the timer's period is 2000 ms.
C3_NonPositiveFallsBack ==
    (pc = "exec" /\ Parsed.ok /\ Parsed.value.n <= 0) =>
        /\ interval_seconds = DefaultInterval
        /\ timer_interval = 2000

\* C4: a line that float() cannot parse does not end the run: the interval
\* is the default 2.0 seconds, start_display has run (image 0 presented, the
\* timer started with 2000 ms) and main() raised nothing.
C4_UnparseableUsesDefault ==
    /\ pc \in {"constructed", "prepared", "exec"}
    /\ (pc = "exec" /\ ~Parsed.ok) =>
          /\ interval_seconds = DefaultInterval
          /\ timer_interval = 2000
          /\ Len(displayed) >= 1 /\ displayed[1] = 0
          /\ (ticks = 0 /\ cancel_index = -1) => (timer_active /\ visible)

C4_Witness ==
    /\ pc = "exec"
    /\ user_input = <<"2", ".", "2", ".">>
    /\ displayed = <<0, 1, 2>>
    /\ timer_interval = 2000

\* C5: STOPPED is terminal.  A step that enters or stays in STOPPED leaves the
\* timer stopped and the window closed, and a step taken in STOPPED stays in
\* STOPPED, delivers no timeout, presents no image and keeps current_image_index.
C5_StoppedIsTerminal ==
    [][ /\ Stopped' => (~timer_active' /\ ~visible')
        /\ Stopped => /\ Stopped'
                      /\ UNCHANGED <<ticks, displayed, pixmap, current_image_index>>
      ]_vars

\* A state in STOPPED by exhaustion of the list, where nothing can happen.
C5_Witness ==
    /\ Stopped
    /\ cancel_index = -1
    /\ current_image_index = NumImages
    /\ ~ENABLED Next

\* An h x w array of 8-bit samples.
IsImage(img, h, w) ==
    /\ img.h = h /\ img.w = w
    /\ Len(img.px) = h
    /\ \A r \in 1..h : /\ Len(img.px[r]) = w
                       /\ \A c \in 1..w : img.px[r][c] \in 0..255

\* C6: for every shape with H >= 2 and W >= 2 prepare_images builds exactly 8
\* images, each of shape (H, W), every pixel in 0..255.
C6_EightImagesOfShape ==
    (call.fn = "prepare_images" /\ screen_height >= 2 /\ screen_width >= 2) =>
        /\ pc = "prepared"
        /\ result.ok
        /\ Len(all_images) = NumImages
        /\ \A i \in 1..Len(all_images) :
              IsImage(all_images[i], screen_height, screen_width)

C6_Witness ==
    /\ call.fn = "prepare_images" /\ screen_height = 3 /\ screen_width = 4
    /\ Len(all_images) = NumImages
    /\ all_images[1].px[1][1] = 255
    /\ all_images[3].px[1][1] = 0

\* The image of one orientation and one shift (a multiple of pi), sample by
\* sample: 127.5 * (1 + cos(phase + shift)) as an 8-bit value.
Rendered(orientation, shift) ==
    LET phase == generate_sinusoidal_fringe_pattern(
                     <<screen_height, screen_width>>, RInt(1), RInt(1),
                     orientation).true_phase
    IN  Array(screen_height, screen_width, LAMBDA r, c :
            astype_uint8(RMul(Rat(255, 2),
                RAdd(RInt(1), Cos(RAdd(phase.px[r][c], shift))))))

Distinct(seq) ==
    \A i \in 1..Len(seq) : \A j \in 1..Len(seq) : i # j => seq[i] # seq[j]

\* C7: images 0..3 of the list are the 'vertical' orientation with shifts
\* 0, pi/2, pi, 3pi/2 in that order, images 4..7 the 'horizontal' orientation
\* with the same shifts in the same order.
C7_OrientationThenShift ==
    (call.fn = "prepare_images" /\ screen_height >= 1 /\ screen_width >= 1) =>
        /\ Len(all_images) = NumImages
        /\ all_images[1] = Rendered("vertical", Rat(0, 1))
        /\ all_images[2] = Rendered("vertical", Rat(1, 2))
        /\ all_images[3] = Rendered("vertical", Rat(1, 1))
        /\ all_images[4] = Rendered("vertical", Rat(3, 2))
        /\ all_images[5] = Rendered("horizontal", Rat(0, 1))
        /\ all_images[6] = Rendered("horizontal", Rat(1, 2))
        /\ all_images[7] = Rendered("horizontal", Rat(1, 1))
        /\ all_images[8] = Rendered("horizontal", Rat(3, 2))

\* A list whose 8 images all differ, so that any other order would show.
C7_Witness ==
    /\ call.fn = "prepare_images" /\ screen_height = 3 /\ screen_width = 4
    /\ Len(all_images) = NumImages
    /\ Distinct(all_images)

\* The interval in ms, before int() is applied.
IntervalMs == RMul(interval_seconds, RInt(1000))

C9_BadOrientationRaises ==
    (call.fn \in {"generate_sinusoidal_fringe_pattern", "generate_phase_shifted_images"}
        /\ call.orientation \notin {"vertical", "horizontal"}) =>
        /\ pc = "raised"
        /\ ~result.ok
        /\ result.err = "ValueError"
        /\ call.fn = "generate_phase_shifted_images" => result.images = <<>>
        /\ all_images = <<>>
        /\ displayed = <<>> /\ pixmap = NoPixmap /\ ~visible
        /\ ~ENABLED NextGen

C9_Witness ==
    /\ call = [fn |-> "generate_phase_shifted_images", orientation |-> "diagonal"]
    /\ screen_height = 3 /\ screen_width = 4
    /\ pc = "raised"

\* C10: a shape whose height or width is <= 0 makes
\* generate_sinusoidal_fringe_pattern raise, for both orientations; it never
\* returns an image.
C10_NonPositiveDimRaises ==
    (call.fn = "generate_sinusoidal_fringe_pattern"
        /\ call.orientation \in {"vertical", "horizontal"}
        /\ (screen_height <= 0 \/ screen_width <= 0)) =>
        /\ pc = "raised"
        /\ ~result.ok

\* ------------------------------------------- presentation that can fail
\* show_image has no try/except: when QImage, QPixmap or setPixmap raises
\* (lines 121-128), after the print of line 117, the exception leaves
\* show_image and its caller.

\* main(), lines 151-159, with show_image raising inside start_display: the
\* window is shown full screen, timer.start is not reached, and the exception
\* leaves main().
main_start_raises ==
    /\ pc = "prepared"
    /\ 0 < Len(all_images)
    /\ \E s \in Inputs :
          /\ user_input' = s
          /\ interval_seconds' = read_interval(s)
    /\ visible' = TRUE
    /\ current_image_index' = 0
    /\ displayed' = Append(displayed, 0)
    /\ call' = [fn |-> "show_image", orientation |-> "none"]
    /\ result' = Raise("Exception")
    /\ pc' = "raised"
    /\ UNCHANGED <<screen_height, screen_width, all_images, timer_active,
                   timer_interval, pixmap, ticks, cancel_index>>

\* show_next_image with show_image raising: the index is already advanced,
\* timer.stop() and close() are not run.  An exception that leaves a slot
\* aborts the process (PyQt5 from 5.5 on) or is printed and dropped (before).
show_next_image_raises ==
    /\ pc = "exec"
    /\ timer_active
    /\ timer_interval >= 0
    /\ current_image_index + 1 < Len(all_images)
    /\ ticks' = ticks + 1
    /\ current_image_index' = current_image_index + 1
    /\ displayed' = Append(displayed, current_image_index')
    /\ call' = [fn |-> "show_image", orientation |-> "none"]
    /\ result' = Raise("Exception")
    /\ pc' \in {"aborted", "exec"}
    /\ UNCHANGED <<screen_height, screen_width, all_images, interval_seconds,
                   timer_active, timer_interval, visible, pixmap, user_input,
                   cancel_index>>

NextFail ==
    \/ Next
    \/ main_start_raises
    \/ show_next_image_raises

SpecFail == Init /\ [][NextFail]_vars

\* C11: when presenting a frame fails, at start or on a tick, the controller
\* is in STOPPED (timer stopped, window closed) and the process goes on.
C11_FailureForcesStopped ==
    (call.fn = "show_image" /\ ~result.ok) =>
        /\ pc = "exec"
        /\ ~timer_active
        /\ ~visible

\* C12: current_image_index is always in 0..len(all_images), and no step
\* (start, tick, key press) makes it smaller.
C12_IndexInRangeAndMonotone ==
    /\ current_image_index \in 0..Len(all_images)
    /\ [][ /\ current_image_index' \in 0..Len(all_images')
           /\ current_image_index' >= current_image_index ]_vars

\* The index at its upper end, len(all_images), after it went through 0..7.
C12_Witness ==
    /\ pc = "exec"
    /\ current_image_index = Len(all_images)
    /\ Len(all_images) = NumImages
    /\ ticks = NumImages

\* C13: for every width W >= 2 the 'vertical' phase map is 0 in column 0 and
\* 2*pi in column W-1, does not decrease from left to right, and has all its
\* rows equal.
C13_VerticalPhaseMap ==
    (call = [fn |-> "generate_sinusoidal_fringe_pattern", orientation |-> "vertical"]
        /\ screen_width >= 2 /\ screen_height >= 1) =>
        /\ result.ok
        /\ result.true_phase.h = screen_height
        /\ result.true_phase.w = screen_width
        /\ \A r \in 1..screen_height :
              LET row == result.true_phase.px[r]
              IN  /\ Len(row) = screen_width
                  /\ row[1] = RInt(0)
                  /\ row[screen_width] = TwoPi
                  /\ \A c \in 1..(screen_width - 1) : RLeq(row[c], row[c + 1])
                  /\ row = result.true_phase.px[1]

C13_Witness ==
    /\ call = [fn |-> "generate_sinusoidal_fringe_pattern", orientation |-> "vertical"]
    /\ screen_height = 3 /\ screen_width = 4
    /\ result.true_phase.px[3] = <<RInt(0), Rat(2, 3), Rat(4, 3), TwoPi>>

\* (H/W) * 2*pi, and offset - shift0 with offset = (2*pi - (H/W)*2*pi) / 2 and
\* shift0 = pi/2, for the window's shape.
ScaledRange == Rat(2 * screen_height, screen_width)
OffsetMinusShift0 == RSub(RMul(RSub(RInt(2), ScaledRange), Rat(1, 2)), Rat(1, 2))
FirstRowPhase == result.true_phase.px[1][1]
LastRowPhase == result.true_phase.px[screen_height][1]

\* C14 as stated, on the shapes that have a first and a last row (H >= 2): the
\* 'horizontal' phase map spans a range of length (H/W)*2*pi from its first to
\* its last row, and the middle of that range is offset - shift0.
C14_RangeCentredOnOffset ==
    (call = [fn |-> "generate_sinusoidal_fringe_pattern", orientation |-> "horizontal"]
        /\ screen_height >= 2 /\ screen_width >= 1) =>
        /\ result.ok
        /\ RSub(LastRowPhase, FirstRowPhase) = ScaledRange
        /\ RAdd(FirstRowPhase, LastRowPhase) = RMul(RInt(2), OffsetMinusShift0)

\* C14 amended: the first row's phase is offset - shift0; for H >= 2 the map
\* spans a range of length (H/W)*2*pi from its first to its last row, so the
\* range begins at offset - shift0 and its middle is pi/2.
C14_RangeBeginsAtOffset ==
    (call = [fn |-> "generate_sinusoidal_fringe_pattern", orientation |-> "horizontal"]
        /\ screen_height >= 1 /\ screen_width >= 1) =>
        /\ result.ok
        /\ FirstRowPhase = OffsetMinusShift0
        /\ screen_height >= 2 =>
              /\ RSub(LastRowPhase, FirstRowPhase) = ScaledRange
              /\ RAdd(FirstRowPhase, LastRowPhase) = Pi

\* Shape (2, 3): the range is [-pi/6, 7*pi/6], of length 4*pi/3.
C14_Witness ==
    /\ call = [fn |-> "generate_sinusoidal_fringe_pattern", orientation |-> "horizontal"]
    /\ screen_height = 2 /\ screen_width = 3
    /\ FirstRowPhase = Rat(-1, 6)
    /\ LastRowPhase = Rat(7, 6)

\* The shifts of images 0..3 of one orientation, as multiples of pi.
ShiftOf == <<Rat(0, 1), Rat(1, 2), Rat(1, 1), Rat(3, 2)>>

\* C15: in the image rendered with shift 0 a pixel whose phase is 0 has
\* intensity 255 and a pixel whose phase is pi has intensity 0; in every image
\* the intensity is 127.5 * (1 + cos(phase + shift)) with its fraction dropped.
C15_RenderedIntensity ==
    (call.fn = "generate_phase_shifted_images"
        /\ call.orientation \in {"vertical", "horizontal"}
        /\ screen_height >= 1 /\ screen_width >= 1) =>
        /\ result.ok
        /\ Len(result.images) = Len(ShiftOf)
        /\ LET phase == generate_sinusoidal_fringe_pattern(
                            <<screen_height, screen_width>>, RInt(1), RInt(1),
                            call.orientation).true_phase
           IN  \A r \in 1..screen_height : \A c \in 1..screen_width :
                  /\ phase.px[r][c] = RInt(0) => result.images[1].px[r][c] = 255
                  /\ phase.px[r][c] = Pi => result.images[1].px[r][c] = 0
                  /\ \A k \in 1..Len(ShiftOf) :
                        LET v == RMul(Rat(255, 2),
                                      RAdd(RInt(1), Cos(RAdd(phase.px[r][c], ShiftOf[k]))))
                        IN  /\ RLeq(RInt(0), v) /\ RLeq(v, RInt(255))
                            /\ result.images[k].px[r][c] = Trunc(v)

\* Width 3: the 'vertical' phases are 0, pi, 2*pi.
C15_Witness ==
    /\ call = [fn |-> "generate_phase_shifted_images", orientation |-> "vertical"]
    /\ screen_height = 2 /\ screen_width = 3
    /\ result.images[1].px[1] = <<255, 0, 255>>
    /\ result.images[3].px[1] = <<0, 255, 0>>

\* C16: self.all_images is built once, by prepare_images before the display
\* starts; no later step (start, timeout, presentation, key press) changes it.
C16_SequenceBuiltOnce ==
    [][ /\ all_images' # all_images =>
              /\ pc = "constructed" /\ pc' = "prepared"
              /\ all_images = <<>>
              /\ all_images' = prepare_images(screen_height, screen_width).images
        /\ pc \in {"prepared", "exec"} =>
              (all_images' = all_images /\ Len(all_images) = NumImages)
      ]_vars

\* A run that has started, ticked and been cancelled, the list still whole.
C16_Witness ==
    /\ pc = "exec"
    /\ ticks = 3
    /\ cancel_index = 3
    /\ Len(all_images) = NumImages
    /\ pixmap = all_images[4]

\* Spec with the timer's timeouts delivered: a started timer whose period Qt
\* accepts keeps firing while the event loop runs.
SpecFair == Spec /\ WF_vars(show_next_image)

\* C17: every run started by start_display eventually reaches STOPPED, for
\* every interval start_display is given.
C17_EveryRunStops == (pc = "exec") ~> Stopped

\* C18: a key press other than Q or Escape changes nothing: the timer stays
\* as it is, the window stays open, current_image_index and the image on the
\* label are those before the key press.
C18_OtherKeysChangeNothing ==
    [][ \A key \in Keys \ {"Q", "Escape"} :
            keyPressEvent(key) =>
                /\ UNCHANGED <<timer_active, timer_interval, visible,
                               current_image_index, pixmap, displayed>>
                /\ UNCHANGED vars
      ]_vars

\* A running display that can receive the Space key.
C18_Witness ==
    /\ pc = "exec"
    /\ timer_active /\ visible
    /\ ticks = 2 /\ current_image_index = 2
    /\ ENABLED keyPressEvent("Space")

\* ------------------------------------------ show_image called on its own
\* Indices outside 0..len(all_images)-1.
OutOfRange == {-1, Len(all_images), Len(all_images) + 1}

\* window.show_image(index) called while the display runs.
call_show_image(index) ==
    /\ pc = "exec"
    /\ show_image(index)
    /\ UNCHANGED <<pc, screen_height, screen_width, current_image_index, all_images,
                   interval_seconds, timer_active, timer_interval, visible,
                   user_input, ticks, cancel_index, call, result>>

NextShow ==
    \/ Next
    \/ \E index \in OutOfRange : call_show_image(index)

SpecShow == Init /\ [][NextShow]_vars

\* The controller is RUNNING: started, timer running, window shown.
Running == pc = "exec" /\ timer_active /\ visible

\* C19: show_image with an index outside 0..len(all_images)-1 presents
\* nothing and changes nothing; every index presented is inside that range,
\* and while the controller is RUNNING the image on the label is
\* all_images[current_image_index], the last one presented.
C19_PresentedInRange ==
    [][ /\ \A index \in OutOfRange : call_show_image(index) => UNCHANGED vars
        /\ \A k \in 1..Len(displayed') :
              displayed'[k] >= 0 /\ displayed'[k] < Len(all_images')
        /\ Running' =>
              /\ pixmap' = all_images'[current_image_index' + 1]
              /\ displayed'[Len(displayed')] = current_image_index'
      ]_vars

\* A running display on image 4 on which show_image(-1) can be called.
C19_Witness ==
    /\ Running
    /\ ticks = 4
    /\ pixmap = all_images[5]
    /\ ENABLED call_show_image(-1)

====
